---- MODULE Spec2Model ----
(***************************************************************************)
(* Model of src/app.py: the load_data pipeline (read_csv, three groupwise  *)
(* imputations, two placeholder fills, three type conversions) and the     *)
(* module-level script that calls it once and then builds the dashboard.   *)
(* The script is followed through its first run, in which every widget     *)
(* returns its default value.                                              *)
(*                                                                         *)
(* Cell values.  A float64 cell is an exact rational <<n, d>> with d > 0   *)
(* in lowest terms (floating-point rounding error is not modelled); the    *)
(* float NaN is <<0, 0>>.  An object (string) cell is <<s>>, and a missing *)
(* object cell is NaN as in pandas.  An Int64 cell is <<n>> and the        *)
(* nullable-integer null pd.NA is <<>>.  A bool cell is TRUE or FALSE.     *)
(* A Series is a sequence of cells; its index is 1..Len.                   *)
(***************************************************************************)
EXTENDS Integers, Sequences, FiniteSets, TLC

VARIABLES
    source,   \* what is at DATA_PATH: "ok", "missing" or "unreadable"
    raw,      \* the table pd.read_csv parses from DATA_PATH when it is "ok"
    data,     \* the module's `data`, bound when load_data returns
    pc,       \* position of the script
    exc,      \* the exception in flight, "none" when there is none
    shown,    \* the streamlit elements emitted so far, in order
    num_cols, \* the module's num_cols list
    cat_cols, \* the module's cat_cols list
    show_hist, show_scatter  \* the two checkboxes

vars == <<source, raw, data, pc, exc, shown, num_cols, cat_cols, show_hist, show_scatter>>

----------------------------------------------------------------------------
(* Bounds and input domains *)

\* Largest number of rows of an input table (numeric specification).
MaxRows == 3
\* Largest number of rows of an input table (categorical specification).
MaxRowsCat == 2

----------------------------------------------------------------------------
(* Cells *)

NaN == <<0, 0>>
NA == <<>>
Float(n) == <<n, 1>>
Str(s) == <<s>>

isna(v) == v = NaN \/ v = NA

RECURSIVE GCD(_, _)
GCD(a, b) == IF b = 0 THEN a ELSE GCD(b, a % b)

\* The rational n/d in lowest terms (n >= 0, d > 0).
Norm(n, d) == LET g == GCD(n, d) IN <<n \div g, d \div g>>

Add(a, b) == Norm(a[1] * b[2] + b[1] * a[2], a[2] * b[2])
DivInt(a, k) == Norm(a[1], a[2] * k)
Less(a, b) == a[1] * b[2] < b[1] * a[2]

Range(s) == {s[i] : i \in DOMAIN s}

----------------------------------------------------------------------------
(* pandas Series operations used by load_data *)

\* A fillna whose result is thrown away: the Series as it was.
fillna_discarded(x, value) == x

\* Series.fillna(value): missing cells replaced, the others kept.
fillna(x, value) == [i \in DOMAIN x |-> IF isna(x[i]) THEN value ELSE x[i]]

dropna(x) == SelectSeq(x, LAMBDA v : ~isna(v))

RECURSIVE Sum(_)
Sum(x) == IF x = <<>> THEN Float(0) ELSE Add(Head(x), Sum(Tail(x)))

\* Series.mean(): skips missing cells; NaN when none is left.
mean(x) ==
    LET v == dropna(x)
    IN  IF v = <<>> THEN NaN ELSE DivInt(Sum(v), Len(v))

\* The k-th smallest cell of a Series without missing cells.
Kth(v, k) ==
    CHOOSE c \in Range(v) :
        /\ Cardinality({i \in DOMAIN v : Less(v[i], c)}) < k
        /\ k <= Cardinality({i \in DOMAIN v : ~Less(c, v[i])})

\* Series.median(): skips missing cells; the middle cell, or the mean of the
\* two middle cells; NaN when none is left.
median(x) ==
    LET v == dropna(x)
        n == Len(v)
    IN  IF n = 0 THEN NaN
        ELSE IF n % 2 = 1 THEN Kth(v, (n + 1) \div 2)
        ELSE DivInt(Add(Kth(v, n \div 2), Kth(v, n \div 2 + 1)), 2)

Count(x, c) == Cardinality({i \in DOMAIN x : x[i] = c})

RECURSIVE sort_values(_)
sort_values(S) ==
    IF S = {} THEN <<>>
    ELSE LET m == CHOOSE m \in S : \A w \in S : ~Less(w, m)
         IN  <<m>> \o sort_values(S \ {m})

\* Series.mode(): the most frequent non-missing cells, sorted ascending; empty
\* when every cell is missing.
mode_sorted(x) ==
    LET v == dropna(x)
    IN  sort_values({c \in Range(v) : \A w \in Range(v) : Count(v, w) <= Count(v, c)})

RECURSIVE first_seen(_, _)
first_seen(v, S) ==
    IF v = <<>> THEN <<>>
    ELSE IF Head(v) \in S THEN <<Head(v)>> \o first_seen(Tail(v), S \ {Head(v)})
    ELSE first_seen(Tail(v), S)

\* A mode() that lists the most frequent cells in order of first appearance.
mode_first_seen(x) ==
    LET v == dropna(x)
    IN  first_seen(v, {c \in Range(v) : \A w \in Range(v) : Count(v, w) <= Count(v, c)})

mode(x) == mode_sorted(x)

\* numpy's round: to the nearest whole number, a half to the even neighbour.
round_half_even(v) ==
    IF isna(v) THEN NaN
    ELSE LET q == v[1] \div v[2]
             r == v[1] % v[2]
         IN  IF 2 * r < v[2] THEN Float(q)
             ELSE IF 2 * r > v[2] THEN Float(q + 1)
             ELSE IF q % 2 = 0 THEN Float(q) ELSE Float(q + 1)

\* A round(0) that leaves the value as it is.
round_noop(v) == v

round0(v) == round_half_even(v)

\* Series.round(0)
round(x) == [i \in DOMAIN x |-> round0(x[i])]

\* Whether astype('Int64') accepts the float Series: every cell is whole or NaN
\* (it raises TypeError, "cannot safely cast non-equivalent float64 to int64",
\* on a fractional cell).
safe_cast(x) == \A i \in DOMAIN x : isna(x[i]) \/ x[i][2] = 1

\* astype('Int64') of one whole or missing float cell: NaN becomes pd.NA.
to_Int64(v) == IF isna(v) THEN NA ELSE <<v[1]>>

astype_Int64(x) == [i \in DOMAIN x |-> to_Int64(x[i])]

\* astype(bool) of one float cell: false for 0.0 only (NaN is true).
to_bool(v) == v # Float(0)

astype_bool(x) == [i \in DOMAIN x |-> to_bool(x[i])]

----------------------------------------------------------------------------
(* The three lambdas handed to transform, and groupby(key)[column].transform *)

\* lambda x: x.fillna(x.median())
fill_median(x) == fillna(x, median(x))

\* lambda x: x.fillna(x.mode()[0] if not x.mode().empty else x.median())
fill_mode(x) == fillna(x, IF mode(x) # <<>> THEN mode(x)[1] ELSE median(x))

\* lambda x: x.fillna(x.mean())
fill_mean(x) == fillna(x, mean(x))

\* The lambda named fn applied to one group's Series.
apply(fn, x) ==
    CASE fn = "median" -> fill_median(x)
      [] fn = "mode" -> fill_mode(x)
      [] fn = "mean" -> fill_mean(x)

\* The cells of x in the rows whose key is k, in row order.
group(key, x, k) ==
    LET RECURSIVE take(_)
        take(i) == IF i > Len(x) THEN <<>>
                   ELSE IF key[i] = k THEN <<x[i]>> \o take(i + 1)
                   ELSE take(i + 1)
    IN  take(1)

\* The position of row i inside its group.
pos(key, i) == Cardinality({j \in 1..i : key[j] = key[i]})

\* df.groupby(key)[column].transform(fn).  groupby has dropna=True by default:
\* a row whose key is missing belongs to no group, and transform returns NaN
\* for it.
groupby_transform(key, x, fn) ==
    [i \in DOMAIN x |->
        IF isna(key[i]) THEN NaN
        ELSE apply(fn, group(key, x, key[i]))[pos(key, i)]]

----------------------------------------------------------------------------
(* DataFrames *)

\* A DataFrame: its column labels in order, each column's dtype and Series.
DataFrame(columns, dtypes, col) == [columns |-> columns, dtypes |-> dtypes, col |-> col]

\* The value of a name that is not bound to a DataFrame.
NoFrame == DataFrame(<<>>, [c \in {} |-> ""], [c \in {} |-> <<>>])

\* An assignment that moves the assigned column to the end of the frame.
setitem_moved(frame, name, x, dtype) ==
    DataFrame(SelectSeq(frame.columns, LAMBDA c : c # name) \o <<name>>,
              [frame.dtypes EXCEPT ![name] = dtype],
              [frame.col EXCEPT ![name] = x])

\* frame[name] = x for a column the frame already has: replaced in place.
setitem(frame, name, x, dtype) ==
    DataFrame(frame.columns,
              [frame.dtypes EXCEPT ![name] = dtype],
              [frame.col EXCEPT ![name] = x])

nrows(frame) == Len(frame.col[frame.columns[1]])

\* A step 1 that fills with the median of the whole column, not the model's.
step1_global(frame) ==
    setitem(frame, "model_year", fill_median(frame.col["model_year"]), "float64")

\* 1. data['model_year'] = data.groupby('model')['model_year'].transform(...)
step1(frame) ==
    setitem(frame, "model_year",
            groupby_transform(frame.col["model"], frame.col["model_year"], "median"),
            "float64")

\* 2. data['cylinders'] = data.groupby('model')['cylinders'].transform(...)
step2(frame) ==
    setitem(frame, "cylinders",
            groupby_transform(frame.col["model"], frame.col["cylinders"], "mode"),
            "float64")

\* A step 3 that groups by model, as steps 1 and 2 do.
step3_by_model(frame) ==
    setitem(frame, "odometer",
            groupby_transform(frame.col["model"], frame.col["odometer"], "mean"),
            "float64")

\* 3. data['odometer'] = data.groupby('model_year')['odometer'].transform(...)
step3(frame) ==
    setitem(frame, "odometer",
            groupby_transform(frame.col["model_year"], frame.col["odometer"], "mean"),
            "float64")

\* A step 4 that skips the two fills.
step4_nofill(frame) == frame

\* 4. data['paint_color'].fillna('desconocido', inplace=True)
\*    data['is_4wd'].fillna(0.0, inplace=True)
step4(frame) ==
    LET a == setitem(frame, "paint_color",
                     fillna(frame.col["paint_color"], Str("desconocido")),
                     frame.dtypes["paint_color"])
    IN  setitem(a, "is_4wd", fillna(a.col["is_4wd"], Float(0)), a.dtypes["is_4wd"])

\* Whether step 5 raises: one of its two astype('Int64') calls rejects its
\* rounded column.
step5_raises(frame) ==
    \/ ~safe_cast(round(frame.col["model_year"]))
    \/ ~safe_cast(round(frame.col["cylinders"]))

\* 5. the three type conversions
step5(frame) ==
    LET a == setitem(frame, "model_year",
                     astype_Int64(round(frame.col["model_year"])), "Int64")
        b == setitem(a, "cylinders",
                     astype_Int64(round(a.col["cylinders"])), "Int64")
    IN  setitem(b, "is_4wd", astype_bool(b.col["is_4wd"]), "bool")

\* What load_data returns for the table read_csv parsed.
load_data(frame) == step5(step4(step3(step2(step1(frame)))))

----------------------------------------------------------------------------
(* Input tables *)

\* The columns of the listing table that the script names, in file order.
Columns == <<"price", "model_year", "model", "cylinders", "odometer",
             "paint_color", "is_4wd", "days_listed">>

\* The dtypes read_csv infers for them.
Dtypes == [price |-> "int64", model_year |-> "float64", model |-> "object",
           cylinders |-> "float64", odometer |-> "float64",
           paint_color |-> "object", is_4wd |-> "float64", days_listed |-> "int64"]

Table(price, model_year, model, cylinders, odometer, paint_color, is_4wd, days_listed) ==
    DataFrame(Columns, Dtypes,
              [price |-> price, model_year |-> model_year, model |-> model,
               cylinders |-> cylinders, odometer |-> odometer,
               paint_color |-> paint_color, is_4wd |-> is_4wd,
               days_listed |-> days_listed])

Models == {Str("civic"), Str("f-150")}
YearCells == {NaN, Float(2015), Float(2016)}
\* The odometer of row i when it is known: a reading of its own.
Odometer(i) == Float(30000 * i)
CylCells == {NaN, Float(4), Float(6), Float(8)}
ColorCells == {NaN, Str("red")}
FlagCells == {NaN, Float(0), Float(1)}
PriceCells == {<<100>>, <<200>>}
DaysCells == {<<7>>, <<30>>}

\* The cells of row i in the columns a specification does not vary.
DefaultModel(i) == IF i % 2 = 1 THEN Str("civic") ELSE Str("f-150")
DefaultYear(i) == IF i % 3 = 1 THEN NaN ELSE IF i % 2 = 0 THEN Float(2015) ELSE Float(2016)
DefaultCyl(i) == IF i % 3 = 1 THEN NaN ELSE IF i % 3 = 2 THEN Float(6) ELSE Float(4)
DefaultOdo(i) == IF i % 2 = 0 THEN NaN ELSE Odometer(i)
DefaultColor(i) == IF i % 2 = 1 THEN NaN ELSE Str("red")
DefaultFlag(i) == IF i % 3 = 1 THEN NaN ELSE IF i % 3 = 2 THEN Float(1) ELSE Float(0)
DefaultPrice(i) == <<100 * i>>
DefaultDays(i) == <<7>>

\* The table is one that varies model, model_year and which odometers are known.
NumericTable(t) ==
    \E n \in 1..MaxRows :
        \E m \in [1..n -> Models], y \in [1..n -> YearCells], known \in SUBSET (1..n) :
            t = Table([i \in 1..n |-> DefaultPrice(i)], y, m,
                      [i \in 1..n |-> DefaultCyl(i)],
                      [i \in 1..n |-> IF i \in known THEN Odometer(i) ELSE NaN],
                      [i \in 1..n |-> DefaultColor(i)],
                      [i \in 1..n |-> DefaultFlag(i)],
                      [i \in 1..n |-> DefaultDays(i)])

\* The table is one that varies model and cylinders.
CylinderTable(t) ==
    \E n \in 1..MaxRows :
        \E m \in [1..n -> Models], c \in [1..n -> CylCells] :
            t = Table([i \in 1..n |-> DefaultPrice(i)],
                      [i \in 1..n |-> DefaultYear(i)], m, c,
                      [i \in 1..n |-> DefaultOdo(i)],
                      [i \in 1..n |-> DefaultColor(i)],
                      [i \in 1..n |-> DefaultFlag(i)],
                      [i \in 1..n |-> DefaultDays(i)])

\* The table is one that varies paint_color, is_4wd, price and days_listed.
CategoricalTable(t) ==
    \E n \in 1..MaxRowsCat :
        \E p \in [1..n -> PriceCells], c \in [1..n -> ColorCells],
           f \in [1..n -> FlagCells], d \in [1..n -> DaysCells] :
            t = Table(p, [i \in 1..n |-> DefaultYear(i)],
                      [i \in 1..n |-> DefaultModel(i)],
                      [i \in 1..n |-> DefaultCyl(i)],
                      [i \in 1..n |-> DefaultOdo(i)], c, f, d)

----------------------------------------------------------------------------
(* The script *)

\* Before the script runs: nothing is bound or shown.
InitScript ==
    /\ data = NoFrame
    /\ pc = "load_data"
    /\ exc = "none"
    /\ shown = <<>>
    /\ num_cols = <<>>
    /\ cat_cols = <<>>
    /\ show_hist = FALSE
    /\ show_scatter = FALSE

NoSource == source \in {"missing", "unreadable"} /\ raw = NoFrame

Init == InitScript /\ (NoSource \/ (source = "ok" /\ NumericTable(raw)))
InitCyl == InitScript /\ (NoSource \/ (source = "ok" /\ CylinderTable(raw)))
InitCat == InitScript /\ (NoSource \/ (source = "ok" /\ CategoricalTable(raw)))

\* data = load_data(DATA_PATH) with the file there and parsable: read_csv, the
\* five steps, and the return that binds the module's data.  A TypeError of
\* step 5 leaves the call as an exception instead.
LoadData ==
    /\ pc = "load_data" /\ source = "ok"
    /\ LET filled == step4(step3(step2(step1(raw))))
       IN  IF step5_raises(filled)
           THEN data' = data /\ pc' = "raised" /\ exc' = "TypeError"
           ELSE data' = step5(filled) /\ pc' = "header" /\ exc' = exc
    /\ UNCHANGED <<source, raw, shown, num_cols, cat_cols, show_hist, show_scatter>>

\* data = load_data(DATA_PATH) with pd.read_csv(path) raising:
\* FileNotFoundError for an absent file, another exception for one that cannot
\* be read or parsed
LoadDataRaise ==
    /\ pc = "load_data" /\ source # "ok"
    /\ exc' \in IF source = "missing" THEN {"FileNotFoundError"}
                ELSE {"PermissionError", "EmptyDataError", "ParserError"}
    /\ pc' = "raised"
    /\ UNCHANGED <<source, raw, data, shown, num_cols, cat_cols, show_hist, show_scatter>>

\* except FileNotFoundError: st.error(...); st.stop()
ExceptFileNotFound ==
    /\ pc = "raised" /\ exc = "FileNotFoundError"
    /\ shown' = Append(shown, "error: file not found")
    /\ exc' = "none"
    /\ pc' = "stopped"
    /\ UNCHANGED <<source, raw, data, num_cols, cat_cols, show_hist, show_scatter>>

\* Any other exception leaves the try statement uncaught and ends the script
\* run; streamlit renders the exception itself.
Uncaught ==
    /\ pc = "raised" /\ exc # "FileNotFoundError"
    /\ shown' = Append(shown, "uncaught exception")
    /\ pc' = "crashed"
    /\ UNCHANGED <<source, raw, data, exc, num_cols, cat_cols, show_hist, show_scatter>>

\* st.header(...); st.markdown(...)
Header ==
    /\ pc = "header"
    /\ shown' = shown \o <<"header", "markdown">>
    /\ pc' = "classify"
    /\ UNCHANGED <<source, raw, data, exc, num_cols, cat_cols, show_hist, show_scatter>>

\* data.select_dtypes(include=...).columns.tolist()
select_dtypes(frame, include) == SelectSeq(frame.columns, LAMBDA c : frame.dtypes[c] \in include)

\* list.remove(x) for a list holding x at most once
remove(list, x) == SelectSeq(list, LAMBDA c : c # x)

numeric_columns(frame) ==
    LET a == select_dtypes(frame, {"int64", "float64", "Int64"})
        b == IF "days_listed" \in Range(a) THEN remove(a, "days_listed") ELSE a
    IN  IF "price" \in Range(b) THEN <<"price">> \o remove(b, "price") ELSE b

categorical_columns(frame) ==
    LET a == select_dtypes(frame, {"object"}) \o <<"is_4wd", "cylinders">>
    IN  IF "model_year" \in Range(a) THEN remove(a, "model_year") ELSE a

\* The column detection, and the stop when no numeric column is left.
Classify ==
    /\ pc = "classify"
    /\ num_cols' = numeric_columns(data)
    /\ cat_cols' = categorical_columns(data)
    /\ IF numeric_columns(data) = <<>>
       THEN shown' = Append(shown, "error: no numeric columns") /\ pc' = "stopped"
       ELSE shown' = shown /\ pc' = "preview"
    /\ UNCHANGED <<source, raw, data, exc, show_hist, show_scatter>>

\* The expander with data.head(50) and the caption
Preview ==
    /\ pc = "preview"
    /\ shown' = Append(shown, "preview")
    /\ pc' = "controls"
    /\ UNCHANGED <<source, raw, data, exc, num_cols, cat_cols, show_hist, show_scatter>>

\* The select boxes, the slider and the two checkboxes; on the first run
\* st.checkbox(..., value=True) returns True.
Controls ==
    /\ pc = "controls"
    /\ show_hist' = TRUE
    /\ show_scatter' = TRUE
    /\ shown' = Append(shown, "controls")
    /\ pc' = "charts"
    /\ UNCHANGED <<source, raw, data, exc, num_cols, cat_cols>>

\* The histogram, the scatter plot, or the note that none is selected
Charts ==
    /\ pc = "charts"
    /\ shown' = shown \o (IF show_hist THEN <<"histogram">> ELSE <<>>)
                      \o (IF show_scatter THEN <<"scatter">> ELSE <<>>)
                      \o (IF ~show_hist /\ ~show_scatter THEN <<"info">> ELSE <<>>)
    /\ pc' = "done"
    /\ UNCHANGED <<source, raw, data, exc, num_cols, cat_cols, show_hist, show_scatter>>

Next ==
    \/ LoadData \/ LoadDataRaise
    \/ ExceptFileNotFound \/ Uncaught
    \/ Header \/ Classify \/ Preview \/ Controls \/ Charts

Spec == Init /\ [][Next]_vars
SpecCyl == InitCyl /\ [][Next]_vars
SpecCat == InitCat /\ [][Next]_vars

----------------------------------------------------------------------------
(* Vocabulary of the properties: the input table is raw, the normalized table *)
(* is the module's data, looked at in the state load_data has just returned.  *)

Returned == pc = "header"

Rows == 1..nrows(raw)

\* The model_year column as it stands after step 1.
year1 == step1(raw).col["model_year"]

\* The rows of row i's model partition.
ModelPartition(i) == {j \in Rows : raw.col["model"][j] = raw.col["model"][i]}

\* The rows of the partition step 3 puts row i in, y being the model_year
\* column after step 1: those sharing row i's y.  A row without a step-1
\* model_year has no key and no partition.
YearPartition(y, i) ==
    IF isna(y[i]) THEN {} ELSE {j \in Rows : y[j] = y[i]}

\* The rows of P whose input cell in column c is not missing.
Known(P, c) == {j \in P : ~isna(raw.col[c][j])}

\* The whole input value of row j in column c.
Val(c, j) == raw.col[c][j][1]

RECURSIVE Total(_, _)
Total(c, P) ==
    IF P = {} THEN 0
    ELSE LET j == CHOOSE j \in P : TRUE IN Val(c, j) + Total(c, P \ {j})

\* The k-th smallest input value of column c over the rows P.
Ranked(c, P, k) ==
    CHOOSE v \in {Val(c, j) : j \in P} :
        /\ Cardinality({j \in P : Val(c, j) < v}) < k
        /\ Cardinality({j \in P : Val(c, j) <= v}) >= k

\* Twice the median of the input values of column c over the rows P.
TwiceMedian(c, P) ==
    LET n == Cardinality(P)
    IN  Ranked(c, P, (n + 1) \div 2) + Ranked(c, P, n \div 2 + 1)

\* How many rows of P hold the value v in column c.
Freq(c, P, v) == Cardinality({j \in P : Val(c, j) = v})

\* The values of column c that are most frequent over the rows P.
MostFrequent(c, P) ==
    {v \in {Val(c, j) : j \in P} : \A j \in P : Freq(c, P, Val(c, j)) <= Freq(c, P, v)}

\* The output table read back as an input table: an Int64 cell as the float of
\* the same value, pd.NA as NaN, a bool as 1.0 or 0.0.
back_to_float(x) == [i \in DOMAIN x |-> IF x[i] = NA THEN NaN ELSE Float(x[i][1])]
back_from_bool(x) == [i \in DOMAIN x |-> IF x[i] THEN Float(1) ELSE Float(0)]
as_input(frame) ==
    DataFrame(frame.columns, Dtypes,
              [c \in DOMAIN frame.col |->
                  IF c \in {"model_year", "cylinders"} THEN back_to_float(frame.col[c])
                  ELSE IF c = "is_4wd" THEN back_from_bool(frame.col[c])
                  ELSE frame.col[c]])

----------------------------------------------------------------------------
(* Properties *)

\* C1: running the pipeline on its own output gives a table identical to that
\* output, cell for cell, in all columns.
C1_Idempotent ==
    Returned => load_data(as_input(data)).col = data.col

\* C1 probe of the cause: the re-run changes nothing when no step-1 model_year
\* is fractional, so every change comes from step 3 grouping on a median that
\* step 5 rounds afterwards.
C1_IdempotentOnWholeYears ==
    (Returned /\ \A i \in Rows : isna(year1[i]) \/ year1[i][2] = 1) =>
        load_data(as_input(data)).col = data.col

\* C2: (a) a row whose model partition has a non-missing model_year has a
\* non-missing model_year after normalization; (b) the same for cylinders;
\* (c) a row whose step-3 partition (the rows sharing its step-1 model_year) has
\* a non-missing odometer has a non-missing odometer after normalization.
C2_Completeness ==
    Returned =>
        LET y == year1
        IN  \A i \in Rows :
                /\ Known(ModelPartition(i), "model_year") # {} => data.col["model_year"][i] # NA
                /\ Known(ModelPartition(i), "cylinders") # {} => data.col["cylinders"][i] # NA
                /\ Known(YearPartition(y, i), "odometer") # {} => ~isna(data.col["odometer"][i])

\* C2 witness: normalization has filled a missing model_year, a missing
\* cylinders and a missing odometer from their partitions.
C2_Witness ==
    /\ Returned
    /\ \E i \in Rows : isna(raw.col["model_year"][i]) /\ data.col["model_year"][i] # NA
    /\ \E i \in Rows : isna(raw.col["cylinders"][i]) /\ data.col["cylinders"][i] # NA
    /\ \E i \in Rows : isna(raw.col["odometer"][i]) /\ ~isna(data.col["odometer"][i])

\* C3: a missing odometer of a row whose step-1 model_year is y becomes the
\* arithmetic mean of the non-missing input odometers of all rows whose step-1
\* model_year is y (imputed or explicit); it stays missing when there is none.
C3_OrderDependency ==
    Returned =>
        LET y == year1
        IN  \A i \in Rows :
                (isna(raw.col["odometer"][i]) /\ ~isna(y[i])) =>
                    LET P == Known(YearPartition(y, i), "odometer")
                        o == data.col["odometer"][i]
                    IN  IF P = {} THEN o = NaN
                        ELSE o # NaN /\ o[1] * Cardinality(P) = Total("odometer", P) * o[2]

\* C3 witness: a row with neither model_year nor odometer in the input was
\* filled with the odometer mean of a partition that holds a row of another
\* model whose model_year was explicit.
C3_Witness ==
    /\ Returned
    /\ \E i, j \in Rows :
          /\ isna(raw.col["model_year"][i]) /\ isna(raw.col["odometer"][i])
          /\ raw.col["model"][j] # raw.col["model"][i]
          /\ ~isna(raw.col["model_year"][j]) /\ ~isna(raw.col["odometer"][j])
          /\ j \in YearPartition(year1, i)
          /\ ~isna(data.col["odometer"][i])

\* C4: a missing model_year of a row whose model partition has a non-missing
\* model_year becomes the median of that partition's non-missing input values
\* rounded to the nearest integer: within 1/2 of the median, and equal to it
\* when the median is whole.
C4_ModelYearMedian ==
    Returned =>
        \A i \in Rows :
            LET P == Known(ModelPartition(i), "model_year")
            IN  (isna(raw.col["model_year"][i]) /\ P # {}) =>
                    LET y == data.col["model_year"][i]
                        t == TwiceMedian("model_year", P)
                    IN  /\ y # NA
                        /\ 2 * y[1] - t \in {-1, 0, 1}
                        /\ t % 2 = 0 => 2 * y[1] = t

\* C4 witness: a missing model_year was filled from a partition of two
\* different model_year values, whose median is not whole.
C4_Witness ==
    /\ Returned
    /\ \E i \in Rows :
          /\ isna(raw.col["model_year"][i])
          /\ Known(ModelPartition(i), "model_year") # {}
          /\ TwiceMedian("model_year", Known(ModelPartition(i), "model_year")) % 2 = 1
          /\ data.col["model_year"][i] # NA

\* C5 as claimed: a missing cylinders of a row whose model partition has a
\* non-missing cylinders becomes the partition's most frequent value, and of
\* several tied values the one that occurs first in the partition's row order.
C5_ModeFirstInRowOrder ==
    Returned =>
        \A i \in Rows :
            LET P == Known(ModelPartition(i), "cylinders")
            IN  (isna(raw.col["cylinders"][i]) /\ P # {}) =>
                    LET M == MostFrequent("cylinders", P)
                        first == CHOOSE j \in P :
                                    /\ Val("cylinders", j) \in M
                                    /\ \A k \in P : Val("cylinders", k) \in M => j <= k
                    IN  data.col["cylinders"][i] = <<Val("cylinders", first)>>

\* C5 as amended: a missing cylinders of a row whose model partition has a
\* non-missing cylinders becomes the partition's most frequent value, and of
\* several tied values the numerically smallest.
C5_ModeSmallest ==
    Returned =>
        \A i \in Rows :
            LET P == Known(ModelPartition(i), "cylinders")
            IN  (isna(raw.col["cylinders"][i]) /\ P # {}) =>
                    LET M == MostFrequent("cylinders", P)
                    IN  \E v \in M :
                            /\ \A w \in M : v <= w
                            /\ data.col["cylinders"][i] = <<v>>

\* C5 witness: a missing cylinders was filled from a partition in which two
\* values tie for most frequent and the larger one comes first.
C5_Witness ==
    /\ Returned
    /\ \E i \in Rows :
          LET P == Known(ModelPartition(i), "cylinders")
          IN  /\ isna(raw.col["cylinders"][i])
              /\ \E j, k \in P :
                    /\ j < k
                    /\ Val("cylinders", j) > Val("cylinders", k)
                    /\ {Val("cylinders", j), Val("cylinders", k)} \subseteq MostFrequent("cylinders", P)
              /\ data.col["cylinders"][i] # NA

\* C6: when the source is absent or unreadable, load_data returns no table, the
\* script shows its own error message and stops, no downstream step runs, and
\* no exception other than the one it handles reaches it.
C6_LoadFailureTerminal ==
    source # "ok" =>
        /\ data = NoFrame
        /\ exc \in {"none", "FileNotFoundError"}
        /\ pc \in {"load_data", "raised", "stopped"}
        /\ pc = "stopped" => shown = <<"error: file not found">>
        /\ pc # "stopped" => shown = <<>>

\* C6, the part the script does implement: an absent source ends with the
\* script's error message shown, no table bound and nothing else run.
C6_AbsentSourceTerminal ==
    source = "missing" =>
        /\ data = NoFrame
        /\ pc \in {"load_data", "raised", "stopped"}
        /\ pc = "stopped" => shown = <<"error: file not found">>
        /\ pc # "stopped" => shown = <<>>

\* C7: after normalization model_year and cylinders are Int64 columns whose
\* cells are whole numbers or pd.NA; a cell whose model partition had no
\* non-missing value is pd.NA; and load_data raises nothing on a readable source.
C7_TypeDomain ==
    /\ source = "ok" => (exc = "none" /\ pc \notin {"raised", "crashed", "stopped"})
    /\ Returned =>
          \A c \in {"model_year", "cylinders"} :
              /\ data.dtypes[c] = "Int64"
              /\ \A i \in Rows :
                    /\ data.col[c][i] = NA \/ (Len(data.col[c][i]) = 1 /\ data.col[c][i][1] \in Int)
                    /\ Known(ModelPartition(i), c) = {} => data.col[c][i] = NA

\* C7 witness: a normalized table holds a model_year that step 1 had set to a
\* fractional median.
C7_Witness ==
    /\ Returned
    /\ \E i \in Rows : year1[i] # NaN /\ year1[i][2] # 1 /\ data.col["model_year"][i] # NA

\* C7, second case reached: a normalized table holds a model_year and a
\* cylinders left pd.NA by a partition without any value.
C7_WitnessNull ==
    /\ Returned
    /\ \E i \in Rows : Known(ModelPartition(i), "model_year") = {} /\ data.col["model_year"][i] = NA
    /\ \E i \in Rows : Known(ModelPartition(i), "cylinders") = {} /\ data.col["cylinders"][i] = NA

\* C8: after normalization no paint_color or is_4wd is missing; a missing
\* paint_color became 'desconocido', a missing is_4wd became false, and a
\* non-missing is_4wd became its truthiness.
C8_PlaceholderAndBool ==
    Returned =>
        \A i \in Rows :
            /\ ~isna(data.col["paint_color"][i])
            /\ isna(raw.col["paint_color"][i]) => data.col["paint_color"][i] = <<"desconocido">>
            /\ data.col["is_4wd"][i] \in BOOLEAN
            /\ isna(raw.col["is_4wd"][i]) => data.col["is_4wd"][i] = FALSE
            /\ ~isna(raw.col["is_4wd"][i]) =>
                  data.col["is_4wd"][i] = (Val("is_4wd", i) # 0)

\* C8 witness: the table had a row missing both cells and a row with
\* is_4wd 1.0.
C8_Witness ==
    /\ Returned
    /\ \E i \in Rows : isna(raw.col["paint_color"][i]) /\ isna(raw.col["is_4wd"][i])
    /\ \E j \in Rows : raw.col["is_4wd"][j] = Float(1) /\ data.col["is_4wd"][j] = TRUE

\* C8, second case reached: the table had a row with is_4wd 0.0 and a row
\* with is_4wd 1.0.
C8_WitnessZero ==
    /\ Returned
    /\ \E i, j \in Rows :
          /\ raw.col["is_4wd"][i] = Float(0) /\ data.col["is_4wd"][i] = FALSE
          /\ raw.col["is_4wd"][j] = Float(1) /\ data.col["is_4wd"][j] = TRUE

\* C9: the normalized table has the input's columns in the input's order and
\* the input's rows in the input's order, and every cell outside the five
\* target columns (model, price, days_listed) is the input's.
C9_FramePreserved ==
    Returned =>
        /\ data.columns = raw.columns
        /\ DOMAIN data.col = DOMAIN raw.col
        /\ \A c \in DOMAIN raw.col : Len(data.col[c]) = nrows(raw)
        /\ \A c \in {"model", "price", "days_listed"} : data.col[c] = raw.col[c]

\* C9 witness: a table of several rows that differ in price and days_listed
\* was normalized and some target cell changed.
C9_Witness ==
    /\ Returned
    /\ nrows(raw) >= 2
    /\ raw.col["price"][1] # raw.col["price"][2]
    /\ raw.col["days_listed"][1] # raw.col["days_listed"][2]
    /\ data.col["paint_color"] # raw.col["paint_color"]

\* C10: a model_year, cylinders or odometer cell that is non-missing in the
\* input has the same value in the output, also in a row whose model_year is
\* still missing after step 1.
C10_OnlyFillsGaps ==
    Returned =>
        \A i \in Rows :
            /\ ~isna(raw.col["model_year"][i]) =>
                  data.col["model_year"][i] = <<Val("model_year", i)>>
            /\ ~isna(raw.col["cylinders"][i]) =>
                  data.col["cylinders"][i] = <<Val("cylinders", i)>>
            /\ ~isna(raw.col["odometer"][i]) =>
                  data.col["odometer"][i] = raw.col["odometer"][i]

\* C10 probe of the cause: known cells are kept in every row that has a
\* step-1 model_year, so every loss comes from step 3 dropping the rows whose
\* grouping key is missing.
C10_OnlyFillsGapsWithYear ==
    Returned =>
        \A i \in Rows :
            /\ ~isna(raw.col["model_year"][i]) =>
                  data.col["model_year"][i] = <<Val("model_year", i)>>
            /\ ~isna(raw.col["cylinders"][i]) =>
                  data.col["cylinders"][i] = <<Val("cylinders", i)>>
            /\ (~isna(raw.col["odometer"][i]) /\ ~isna(year1[i])) =>
                  data.col["odometer"][i] = raw.col["odometer"][i]

====
